---- MODULE Spec2Model ----
(***************************************************************************)
(* Model of the password-analysis repository.                              *)
(*   files.py   : convert_and_combine (ingestion, cleaning, deduplication) *)
(*   process.py : __main__, analyze_passwords, check_rainbow_table         *)
(* Text is a sequence of one-character strings.  "S" stands for a lone     *)
(* surrogate code point (a str value that utf-16le cannot encode).         *)
(***************************************************************************)
EXTENDS Integers, Sequences, FiniteSets, TLC

VARIABLES
    pc,                 \* position of the running script / function
    input_folder,       \* files.py: the input folder, file name -> entry
    pending,            \* files.py: names os.listdir has not yet yielded
    combined_content,   \* files.py: list of the contents read so far
    linesep,            \* os.linesep of the platform (text-mode newline translation)
    combined_output,    \* the file combined_output.txt on disk
    passwords,          \* process.py: the credential list
    rainbow,            \* the rainbow directory on disk
    rainbow_files,      \* check_rainbow_table: the listed table files, in listing order
    fi,                 \* index of the current table file in rainbow_files
    pi,                 \* index of the current password in passwords
    precomputed_hashes, \* the membership set of the current table file
    cracked_passwords,  \* the accumulator dict of check_rainbow_table
    opened,             \* names of the table files handed to open()
    returned_value,     \* what check_rainbow_table returned to its caller
    log,                \* messages given to logging.error
    results_file,       \* what analyze_passwords wrote about the cracked passwords
    run,                \* number of the current call of check_rainbow_table
    first_result        \* the value returned by the first call

vars == <<pc, input_folder, pending, combined_content, linesep, combined_output,
          passwords, rainbow, rainbow_files, fi, pi, precomputed_hashes,
          cracked_passwords, opened, returned_value, log, results_file, run,
          first_result>>

(***************************************************************************)
(* Bounds                                                                  *)
(***************************************************************************)
MaxPasswords == 2   \* longest credential list handed to check_rainbow_table
NumTables == 2      \* number of entries of the rainbow directory
MaxTextLen == 3     \* longest combined_output.txt the script is started on
MaxFileLen == 3     \* longest .txt input file of convert_and_combine

(***************************************************************************)
(* Text helpers                                                            *)
(***************************************************************************)
Range(s) == {s[i] : i \in 1..Len(s)}

SeqsUpTo(S, n) == UNION {[1..k -> S] : k \in 0..n}

Perms(S) == {s \in [1..Cardinality(S) -> S] : \A i, j \in 1..Cardinality(S) : s[i] = s[j] => i = j}

\* str.isspace / bytes whitespace, restricted to the characters of the model
IsSpace(c) == c \in {" ", "\n", "\r", "\f"}

RECURSIVE LStrip(_)
LStrip(s) == IF s # <<>> /\ IsSpace(Head(s)) THEN LStrip(Tail(s)) ELSE s

RECURSIVE RStrip(_)
RStrip(s) == IF s # <<>> /\ IsSpace(s[Len(s)]) THEN RStrip(SubSeq(s, 1, Len(s) - 1)) ELSE s

\* str.strip() and bytes.strip()
Strip(s) == RStrip(LStrip(s))

\* the line boundaries of str.splitlines()
LineBoundaries == {"\n", "\r", "\f"}

RECURSIVE SplitLinesFrom(_, _, _, _)
SplitLinesFrom(s, i, cur, acc) ==
    IF i > Len(s) THEN (IF cur = <<>> THEN acc ELSE Append(acc, cur))
    ELSE IF s[i] = "\r" /\ i < Len(s) /\ s[i + 1] = "\n"
         THEN SplitLinesFrom(s, i + 2, <<>>, Append(acc, cur))
    ELSE IF s[i] \in LineBoundaries
         THEN SplitLinesFrom(s, i + 1, <<>>, Append(acc, cur))
    ELSE SplitLinesFrom(s, i + 1, Append(cur, s[i]), acc)

\* str.splitlines()
SplitLines(s) == SplitLinesFrom(s, 1, <<>>, <<>>)

RECURSIVE Join(_, _)
\* sep.join(parts)
Join(parts, sep) ==
    IF parts = <<>> THEN <<>>
    ELSE IF Len(parts) = 1 THEN parts[1]
    ELSE parts[1] \o sep \o Join(Tail(parts), sep)

RECURSIVE UniversalNewlines(_)
\* reading in text mode: "\r\n" and "\r" become "\n"
UniversalNewlines(raw) ==
    IF raw = <<>> THEN <<>>
    ELSE IF Head(raw) = "\r" /\ Len(raw) > 1 /\ raw[2] = "\n"
         THEN <<"\n">> \o UniversalNewlines(SubSeq(raw, 3, Len(raw)))
    ELSE IF Head(raw) = "\r" THEN <<"\n">> \o UniversalNewlines(Tail(raw))
    ELSE <<Head(raw)>> \o UniversalNewlines(Tail(raw))

RECURSIVE WriteNewlines(_, _)
\* writing in text mode: "\n" becomes os.linesep
WriteNewlines(text, sep) ==
    IF text = <<>> THEN <<>>
    ELSE (IF Head(text) = "\n" THEN sep ELSE <<Head(text)>>) \o WriteNewlines(Tail(text), sep)

RECURSIVE ReadLinesFrom(_, _, _, _)
ReadLinesFrom(s, i, cur, acc) ==
    IF i > Len(s) THEN (IF cur = <<>> THEN acc ELSE Append(acc, cur))
    ELSE IF s[i] = "\n" THEN ReadLinesFrom(s, i + 1, <<>>, Append(acc, Append(cur, s[i])))
    ELSE ReadLinesFrom(s, i + 1, Append(cur, s[i]), acc)

\* file.readlines() of a text-mode file: lines keep their "\n"
ReadLines(raw) == ReadLinesFrom(UniversalNewlines(raw), 1, <<>>, <<>>)

\* [line.strip() for line in lines if line.strip()]
StripNonEmpty(lines) == SelectSeq([i \in 1..Len(lines) |-> Strip(lines[i])], LAMBDA l : l # <<>>)

(***************************************************************************)
(* process.py : the digest transform of check_rainbow_table (line 50)      *)
(***************************************************************************)
\* pwd.encode('utf-16le') raises UnicodeEncodeError on a lone surrogate
CanEncode(pwd) == "S" \notin Range(pwd)

CharCode(c) == CASE c = "a" -> 1 [] c = "b" -> 2 [] OTHER -> 3

RECURSIVE SumCodes(_)
SumCodes(s) == IF s = <<>> THEN 0 ELSE CharCode(Head(s)) + SumCodes(Tail(s))

\* the digits hexdigest() can produce (the digest space of the model)
HexDigits == <<"1", "a">>

\* hashlib.new('md4', ...).hexdigest(): a fixed many-to-one function of the
\* credential, in lowercase hexadecimal
HexDigest(pwd) == <<HexDigits[(SumCodes(pwd) % Len(HexDigits)) + 1]>>

\* str.upper()
Upper(s) == [i \in 1..Len(s) |-> IF s[i] = "a" THEN "A" ELSE s[i]]

\* hashlib.new('md4', pwd.encode('utf-16le')).hexdigest().upper().encode('utf-8')
NTLMHash(pwd) == Upper(HexDigest(pwd))

(***************************************************************************)
(* The rainbow directory                                                   *)
(***************************************************************************)
AllTableNames == <<"a.hash", "b.hash", "c.hash", "d.hash">>

TableNames == {AllTableNames[i] : i \in 1..NumTables}

\* contents of a table file, as the raw lines a binary-mode file yields
TableContents ==
    { << <<"A", "\n">> >>,
      << <<" ", "A", " ", "\n">>, <<"1">> >>,
      << <<"a", "\n">>, <<"1", "\n">> >> }

RainbowEntries ==
    {[kind |-> "file", lines |-> c] : c \in TableContents}
    \cup {[kind |-> "unreadable", lines |-> <<>>], [kind |-> "dir", lines |-> <<>>]}

NoDirectory == [exists |-> FALSE, entries |-> [n \in TableNames |-> [kind |-> "dir", lines |-> <<>>]]]

RainbowDirs ==
    {[exists |-> TRUE, entries |-> e] : e \in [TableNames -> RainbowEntries]} \cup {NoDirectory}

\* os.path.isfile(...) filter of line 45, applied to a listing
FilesOnly(listing) == SelectSeq(listing, LAMBDA n : rainbow.entries[n].kind # "dir")

\* a set built from the raw lines without strip()
PrecomputedHashesNoStrip(lines) == Range(lines)

\* set(line.strip() for line in rainbow_file)
PrecomputedHashes(lines) == {Strip(lines[i]) : i \in 1..Len(lines)}

\* a membership test that always succeeds
HitAlways(ntlm_hash, hashes) == TRUE

\* ntlm_hash in precomputed_hashes
Hit(ntlm_hash, hashes) == ntlm_hash \in hashes

EmptyDict == [p \in {} |-> ""]

\* cracked_passwords[pwd] = os.path.basename(file_path)
Store(dict, pwd, table) == [p \in DOMAIN dict \cup {pwd} |-> IF p = pwd THEN table ELSE dict[p]]

Nothing == [nothing |-> TRUE]

\* return cracked_passwords
ReturnValue(dict) == [cracked_passwords |-> dict]

(***************************************************************************)
(* process.py : check_rainbow_table                                        *)
(***************************************************************************)
ingestVars == <<input_folder, pending, combined_content, linesep>>

\* lines 43-45: cracked_passwords = {} ; os.listdir, in arbitrary order
ListDir ==
    /\ pc = "crt_listdir"
    /\ cracked_passwords' = EmptyDict
    /\ IF rainbow.exists
       THEN \E listing \in Perms(TableNames) :
               /\ rainbow_files' = FilesOnly(listing)
               /\ fi' = 1
               /\ pc' = "crt_file"
               /\ UNCHANGED <<log, returned_value>>
       ELSE /\ log' = log \cup {"Rainbow directory not found"}
            /\ returned_value' = ReturnValue(EmptyDict)
            /\ pc' = "returned"
            /\ UNCHANGED <<rainbow_files, fi>>
    /\ UNCHANGED <<ingestVars, combined_output, passwords, rainbow, pi,
                   precomputed_hashes, opened, results_file, run, first_result>>

\* lines 46-48: open the next table file and build its membership set
OpenFile ==
    /\ pc = "crt_file"
    /\ fi <= Len(rainbow_files)
    /\ rainbow.entries[rainbow_files[fi]].kind = "file"
    /\ opened' = opened \cup {rainbow_files[fi]}
    /\ precomputed_hashes' = PrecomputedHashes(rainbow.entries[rainbow_files[fi]].lines)
    /\ pi' = 1
    /\ IF passwords = <<>>
       THEN pc' = "crt_file" /\ fi' = fi + 1
       ELSE pc' = "crt_pwd" /\ fi' = fi
    /\ UNCHANGED <<ingestVars, combined_output, passwords, rainbow, rainbow_files,
                   cracked_passwords, returned_value, log, results_file, run, first_result>>

\* lines 47, 55-57: open() raises; the handler logs and the partial dict is returned
OpenError ==
    /\ pc = "crt_file"
    /\ fi <= Len(rainbow_files)
    /\ rainbow.entries[rainbow_files[fi]].kind = "unreadable"
    /\ opened' = opened \cup {rainbow_files[fi]}
    /\ log' = log \cup {"Error processing rainbow table files"}
    /\ returned_value' = ReturnValue(cracked_passwords)
    /\ pc' = "returned"
    /\ UNCHANGED <<ingestVars, combined_output, passwords, rainbow, rainbow_files, fi, pi,
                   precomputed_hashes, cracked_passwords, results_file, run, first_result>>

\* lines 49-52: digest one password and test it against the current table
CheckPassword ==
    /\ pc = "crt_pwd"
    /\ CanEncode(passwords[pi])
    /\ cracked_passwords' =
          IF Hit(NTLMHash(passwords[pi]), precomputed_hashes)
          THEN Store(cracked_passwords, passwords[pi], rainbow_files[fi])
          ELSE cracked_passwords
    /\ IF pi < Len(passwords)
       THEN pi' = pi + 1 /\ pc' = "crt_pwd" /\ fi' = fi
       ELSE pi' = pi /\ pc' = "crt_file" /\ fi' = fi + 1
    /\ UNCHANGED <<ingestVars, combined_output, passwords, rainbow, rainbow_files,
                   precomputed_hashes, opened, returned_value, log, results_file, run,
                   first_result>>

\* lines 50, 55-57: encode() raises; the handler logs and the partial dict is returned
EncodeError ==
    /\ pc = "crt_pwd"
    /\ ~CanEncode(passwords[pi])
    /\ log' = log \cup {"Error processing rainbow table files"}
    /\ returned_value' = ReturnValue(cracked_passwords)
    /\ pc' = "returned"
    /\ UNCHANGED <<ingestVars, combined_output, passwords, rainbow, rainbow_files, fi, pi,
                   precomputed_hashes, cracked_passwords, opened, results_file, run,
                   first_result>>

\* line 57: every listed file was processed
Return ==
    /\ pc = "crt_file"
    /\ fi > Len(rainbow_files)
    /\ returned_value' = ReturnValue(cracked_passwords)
    /\ pc' = "returned"
    /\ UNCHANGED <<ingestVars, combined_output, passwords, rainbow, rainbow_files, fi, pi,
                   precomputed_hashes, cracked_passwords, opened, log, results_file, run,
                   first_result>>

\* KeyboardInterrupt is no Exception: lines 53-56 do not catch it, and neither
\* does analyze_passwords or __main__; the frame and its dict are gone
Interrupt ==
    /\ pc \in {"crt_listdir", "crt_file", "crt_pwd"}
    /\ pc' = "killed"
    /\ UNCHANGED <<ingestVars, combined_output, passwords, rainbow, rainbow_files, fi, pi,
                   precomputed_hashes, cracked_passwords, opened, returned_value, log,
                   results_file, run, first_result>>

\* the same call made a second time on the same inputs
Rerun ==
    /\ pc = "returned"
    /\ run = 1
    /\ run' = 2
    /\ first_result' = returned_value
    /\ returned_value' = Nothing
    /\ opened' = {}
    /\ log' = {}
    /\ pc' = "crt_listdir"
    /\ UNCHANGED <<ingestVars, combined_output, passwords, rainbow, rainbow_files, fi, pi,
                   precomputed_hashes, cracked_passwords, results_file>>

(***************************************************************************)
(* process.py : __main__ and analyze_passwords                             *)
(***************************************************************************)
\* a guard that never finds the list empty
NoPasswordsNever(pw) == FALSE

\* line 210: if not passwords
NoPasswords(pw) == pw = <<>>

\* lines 206-217
MainRead ==
    /\ pc = "main"
    /\ CASE combined_output.status = "missing" ->
              /\ log' = log \cup {"'combined_output.txt' file not found"}
              /\ pc' = "exit"
              /\ UNCHANGED passwords
         [] combined_output.status = "undecodable" ->
              /\ log' = log \cup {"codec can't decode"}
              /\ pc' = "exit"
              /\ UNCHANGED passwords
         [] OTHER ->
              /\ passwords' = StripNonEmpty(ReadLines(combined_output.text))
              /\ IF NoPasswords(passwords')
                 THEN log' = log \cup {"No passwords found in the file."} /\ pc' = "exit"
                 ELSE log' = log /\ pc' = "analyze"
    /\ UNCHANGED <<ingestVars, combined_output, rainbow, rainbow_files, fi, pi,
                   precomputed_hashes, cracked_passwords, opened, returned_value,
                   results_file, run, first_result>>

\* lines 84-164: statistics and plots, then the call of check_rainbow_table
AnalyzeLengths ==
    /\ pc = "analyze"
    /\ results_file' = <<[section |-> "Password Length Analysis", count |-> Len(passwords)]>>
    /\ pc' = "crt_listdir"
    /\ UNCHANGED <<ingestVars, combined_output, passwords, rainbow, rainbow_files, fi, pi,
                   precomputed_hashes, cracked_passwords, opened, returned_value, log, run,
                   first_result>>

\* lines 164-202: the caller receives the dict and reports it
AnalyzeCracked ==
    /\ pc = "returned"
    /\ results_file' = Append(results_file,
          [section |-> "Cracked passwords",
           count |-> Cardinality(DOMAIN returned_value.cracked_passwords)])
    /\ pc' = "done"
    /\ UNCHANGED <<ingestVars, combined_output, passwords, rainbow, rainbow_files, fi, pi,
                   precomputed_hashes, cracked_passwords, opened, returned_value, log, run,
                   first_result>>

(***************************************************************************)
(* files.py : convert_and_combine                                          *)
(***************************************************************************)
InputNames == {"p.txt", "q.csv", "r.xlsx", "s.dat", "sub"}

\* file_name.endswith(...) of lines 24, 31, 39
Extension(name) ==
    CASE name = "p.txt" -> ".txt"
      [] name = "q.csv" -> ".csv"
      [] name = "r.xlsx" -> ".xlsx"
      [] OTHER -> ""

procVars == <<passwords, rainbow, rainbow_files, fi, pi, precomputed_hashes,
              cracked_passwords, opened, returned_value, results_file, run, first_result>>

\* lines 19-21: not os.path.isfile(file_path)
SkipNonFile ==
    /\ pc = "convert"
    /\ \E name \in pending :
          /\ input_folder[name].kind = "dir"
          /\ pending' = pending \ {name}
    /\ UNCHANGED <<pc, input_folder, combined_content, linesep, combined_output, log, procVars>>

\* lines 24-29: a .txt file is read in text mode
ReadTxt ==
    /\ pc = "convert"
    /\ \E name \in pending :
          /\ input_folder[name].kind = "file"
          /\ Extension(name) = ".txt"
          /\ combined_content' = Append(combined_content, UniversalNewlines(input_folder[name].data))
          /\ pending' = pending \ {name}
    /\ UNCHANGED <<pc, input_folder, linesep, combined_output, log, procVars>>

\* ', '.join(row)
JoinRow(row) == Join(row, <<",", " ">>)

\* lines 31-37: the rows of csv.reader, joined
ReadCsv ==
    /\ pc = "convert"
    /\ \E name \in pending :
          /\ input_folder[name].kind = "file"
          /\ Extension(name) = ".csv"
          /\ combined_content' = Append(combined_content,
                Join([i \in 1..Len(input_folder[name].data) |-> JoinRow(input_folder[name].data[i])],
                     <<"\n">>))
          /\ pending' = pending \ {name}
    /\ UNCHANGED <<pc, input_folder, linesep, combined_output, log, procVars>>

RECURSIVE Terminated(_, _)
\* every row followed by the line terminator
Terminated(rows, sep) ==
    IF rows = <<>> THEN <<>> ELSE Head(rows) \o sep \o Terminated(Tail(rows), sep)

\* df.to_csv(index=False, header=True, sep=','): the header row, then the rows,
\* each ended by os.linesep
ToCsv(df, sep) == Terminated(<<JoinRow(df.header)>> \o [i \in 1..Len(df.rows) |-> JoinRow(df.rows[i])], sep)

\* lines 39-44
ReadXlsx ==
    /\ pc = "convert"
    /\ \E name \in pending :
          /\ input_folder[name].kind = "file"
          /\ Extension(name) = ".xlsx"
          /\ combined_content' = Append(combined_content, ToCsv(input_folder[name].data, linesep))
          /\ pending' = pending \ {name}
    /\ UNCHANGED <<pc, input_folder, linesep, combined_output, log, procVars>>

\* lines 46-47: unsupported file type
SkipUnsupported ==
    /\ pc = "convert"
    /\ \E name \in pending :
          /\ input_folder[name].kind = "file"
          /\ Extension(name) = ""
          /\ pending' = pending \ {name}
    /\ UNCHANGED <<pc, input_folder, combined_content, linesep, combined_output, log, procVars>>

\* lines 48-49: reading raised; the file contributes nothing
ReadError ==
    /\ pc = "convert"
    /\ \E name \in pending :
          /\ input_folder[name].kind = "error"
          /\ pending' = pending \ {name}
    /\ UNCHANGED <<pc, input_folder, combined_content, linesep, combined_output, log, procVars>>

\* lines 51-52: nothing was read, nothing is written
NothingCombined ==
    /\ pc = "convert"
    /\ pending = {}
    /\ combined_content = <<>>
    /\ pc' = "main"
    /\ UNCHANGED <<input_folder, pending, combined_content, linesep, combined_output, log,
                   procVars>>

\* line 56
CleanLines(combined_text) == StripNonEmpty(SplitLines(combined_text))

\* the list kept as it is, duplicates included
KeepDuplicates(lines) == {lines}

\* line 59: list(set(passwords)), in the arbitrary order of set iteration
UniquePasswords(lines) == Perms(Range(lines))

\* lines 53-65: clean, deduplicate and write combined_output.txt in text mode
CombineAndWrite ==
    /\ pc = "convert"
    /\ pending = {}
    /\ combined_content # <<>>
    /\ \E unique_passwords \in UniquePasswords(CleanLines(Join(combined_content, <<"\n">>))) :
          combined_output' = [status |-> "ok",
                              text |-> WriteNewlines(Join(unique_passwords, <<"\n">>), linesep)]
    /\ pc' = "main"
    /\ UNCHANGED <<input_folder, pending, combined_content, linesep, log, procVars>>

(***************************************************************************)
(* Specifications                                                          *)
(***************************************************************************)
\* characters of a combined_output.txt the script is started on
ScriptChars == {"a", "b", " ", "\n"}

\* the str values a caller can hand to check_rainbow_table
Credentials == {<<"a">>, <<"b">>, <<"b", "b">>, <<"S">>}

NoFile == [status |-> "missing", text |-> <<>>]

IdleIngest ==
    /\ input_folder = <<>>
    /\ pending = {}
    /\ combined_content = <<>>
    /\ linesep = <<"\n">>

FreshCall ==
    /\ rainbow \in RainbowDirs
    /\ rainbow_files = <<>>
    /\ fi = 1
    /\ pi = 1
    /\ precomputed_hashes = {}
    /\ cracked_passwords = EmptyDict
    /\ opened = {}
    /\ returned_value = Nothing
    /\ log = {}
    /\ results_file = <<>>
    /\ run = 1
    /\ first_result = Nothing

\* python process.py
Init ==
    /\ pc = "main"
    /\ IdleIngest
    /\ combined_output \in
          {NoFile, [status |-> "undecodable", text |-> <<>>]}
          \cup {[status |-> "ok", text |-> t] : t \in SeqsUpTo(ScriptChars, MaxTextLen)}
    /\ passwords = <<>>
    /\ FreshCall

Next ==
    \/ MainRead
    \/ AnalyzeLengths
    \/ ListDir
    \/ OpenFile
    \/ OpenError
    \/ CheckPassword
    \/ Return
    \/ Interrupt
    \/ AnalyzeCracked

Spec == Init /\ [][Next]_vars

\* check_rainbow_table(passwords, "rainbow") called on any list of str
InitCall ==
    /\ pc = "crt_listdir"
    /\ IdleIngest
    /\ combined_output = NoFile
    /\ passwords \in SeqsUpTo(Credentials, MaxPasswords)
    /\ FreshCall

NextCall ==
    \/ ListDir
    \/ OpenFile
    \/ OpenError
    \/ CheckPassword
    \/ EncodeError
    \/ Return
    \/ Interrupt

SpecCall == InitCall /\ [][NextCall]_vars

NextTwoRuns ==
    \/ ListDir
    \/ OpenFile
    \/ OpenError
    \/ CheckPassword
    \/ EncodeError
    \/ Return
    \/ Rerun

\* the same call made twice on the same credentials and the same directory
SpecTwoRuns == InitCall /\ [][NextTwoRuns]_vars

\* characters of a .txt input file
FileChars == {"a", " ", "\n", "\r", "\f"}

TxtEntries ==
    {[kind |-> "file", data |-> t] : t \in SeqsUpTo(FileChars, MaxFileLen)}
    \cup {[kind |-> "error", data |-> <<>>], [kind |-> "absent", data |-> <<>>]}

\* what csv.reader yields: rows of fields
CsvEntries ==
    {[kind |-> "file", data |-> << << <<"a">> >> >>],
     [kind |-> "file", data |-> << << <<"a">>, <<" ">> >>, << <<"a">> >> >>],
     [kind |-> "absent", data |-> <<>>]}

\* what pd.read_excel yields: a header row and the rows of the sheet
XlsxEntries ==
    {[kind |-> "file", data |-> [header |-> << <<"h">> >>, rows |-> << << <<"a">> >> >>]],
     [kind |-> "absent", data |-> [header |-> <<>>, rows |-> <<>>]]}

InputFolders ==
    {[n \in InputNames |->
        CASE n = "p.txt" -> t
          [] n = "q.csv" -> c
          [] n = "r.xlsx" -> x
          [] n = "s.dat" -> [kind |-> "file", data |-> <<>>]
          [] OTHER -> [kind |-> "dir", data |-> <<>>]]
     : t \in TxtEntries, c \in CsvEntries, x \in XlsxEntries}

\* python files.py, then python process.py up to the credential list
InitIngest ==
    /\ pc = "convert"
    /\ input_folder \in InputFolders
    /\ pending = {n \in InputNames : input_folder[n].kind # "absent"}
    /\ combined_content = <<>>
    /\ linesep \in {<<"\n">>, <<"\r", "\n">>}
    /\ combined_output = NoFile
    /\ passwords = <<>>
    /\ rainbow = NoDirectory
    /\ rainbow_files = <<>>
    /\ fi = 1
    /\ pi = 1
    /\ precomputed_hashes = {}
    /\ cracked_passwords = EmptyDict
    /\ opened = {}
    /\ returned_value = Nothing
    /\ log = {}
    /\ results_file = <<>>
    /\ run = 1
    /\ first_result = Nothing

NextIngest ==
    \/ SkipNonFile
    \/ ReadTxt
    \/ ReadCsv
    \/ ReadXlsx
    \/ SkipUnsupported
    \/ ReadError
    \/ NothingCombined
    \/ CombineAndWrite
    \/ MainRead

SpecIngest == InitIngest /\ [][NextIngest]_vars

(***************************************************************************)
(* Properties                                                              *)
(***************************************************************************)
\* the table file `name` holds `digest` as one of its newline-delimited entries
Contains(name, digest) ==
    /\ rainbow.entries[name].kind = "file"
    /\ \E i \in 1..Len(rainbow.entries[name].lines) :
          LET line == rainbow.entries[name].lines[i]
          IN \E a, b \in 0..Len(line) :
                /\ a + Len(digest) + b = Len(line)
                /\ SubSeq(line, a + 1, a + Len(digest)) = digest
                /\ \A k \in (1..a) \cup ((a + Len(digest) + 1)..Len(line)) :
                      line[k] \in {" ", "\n", "\r", "\f"}

\* the credential has a digest and table `name` holds it
Matches(pwd, name) == CanEncode(pwd) /\ Contains(name, NTLMHash(pwd))

\* positions in the listing of the tables that match the credential
MatchingPositions(pwd) == {i \in 1..Len(rainbow_files) : Matches(pwd, rainbow_files[i])}

Min(S) == CHOOSE x \in S : \A y \in S : x <= y

Max(S) == CHOOSE x \in S : \A y \in S : x >= y

Returned == pc = "returned"

\* the loop of line 46 ran over every listed table file
RanAllTables == Returned /\ rainbow.exists /\ fi > Len(rainbow_files)

AllEncodable == \A i \in 1..Len(passwords) : CanEncode(passwords[i])

UnreadableTables == {n \in Range(rainbow_files) : rainbow.entries[n].kind = "unreadable"}

ReadableTables == {n \in Range(rainbow_files) : rainbow.entries[n].kind = "file"}

\* C1: tie-break. When a run has processed every table and a credential's digest
\* is in more than one of them, the result attributes the credential to the first
\* such table in processing order.
C1_FirstMatchWins ==
    RanAllTables =>
        \A p \in DOMAIN returned_value.cracked_passwords :
            /\ MatchingPositions(p) # {}
            /\ returned_value.cracked_passwords[p] = rainbow_files[Min(MatchingPositions(p))]

\* C2: soundness. At every point of a run every credential in the result is one of
\* the input credentials, and its digest is held by a table file that was opened
\* and read.
C2_Soundness ==
    /\ \A p \in DOMAIN cracked_passwords :
          /\ p \in Range(passwords)
          /\ \E n \in opened : Matches(p, n)
    /\ (Returned =>
          \A p \in DOMAIN returned_value.cracked_passwords :
              /\ p \in Range(passwords)
              /\ \E n \in opened : Matches(p, n))

C2_Witness ==
    /\ Returned
    /\ DOMAIN returned_value.cracked_passwords # {}
    /\ \E i \in 1..Len(passwords) :
          /\ CanEncode(passwords[i])
          /\ passwords[i] \notin DOMAIN returned_value.cracked_passwords
    /\ Cardinality(opened) >= 2

\* C3: exhaustive attribution. When a run has gone over every table file, the
\* domain of the result is exactly the set of input credentials whose digest is
\* held by at least one of the tables.
C3_Exhaustive ==
    RanAllTables =>
        DOMAIN returned_value.cracked_passwords =
            {p \in Range(passwords) : \E n \in Range(rainbow_files) : Matches(p, n)}

C3_Witness ==
    /\ RanAllTables
    /\ Len(rainbow_files) >= 2
    /\ Cardinality(DOMAIN returned_value.cracked_passwords) >= 2
    /\ \E p \in DOMAIN returned_value.cracked_passwords :
          Cardinality(MatchingPositions(p)) = 1

\* C4: determinism. Two runs on the same credentials and the same table files
\* return identical results, whatever order the directory is enumerated in.
C4_Deterministic ==
    (Returned /\ run = 2 /\ AllEncodable /\ UnreadableTables = {}) =>
        returned_value = first_result

\* C5: an unavailable table source does not stop the run. When one table file
\* cannot be opened, every other table file is still scanned and the result holds
\* every match of the other files.
C5_UnavailableTableSkipped ==
    (Returned /\ rainbow.exists /\ passwords # <<>> /\ AllEncodable
        /\ Cardinality(UnreadableTables) = 1) =>
        /\ ReadableTables \subseteq opened
        /\ \A p \in Range(passwords) :
              (\E n \in ReadableTables : Matches(p, n)) =>
                  p \in DOMAIN returned_value.cracked_passwords

\* what the run returns on the credentials that can be encoded alone
ResultOfEncodable ==
    [p \in {q \in Range(passwords) : MatchingPositions(q) # {}} |->
        rainbow_files[Max(MatchingPositions(p))]]

\* C6: a credential that cannot be encoded is skipped on its own. The run returns
\* what it returns when the unencodable credentials are left out of the list.
C6_UnencodableSkipped ==
    (Returned /\ rainbow.exists /\ UnreadableTables = {}) =>
        returned_value.cracked_passwords = ResultOfEncodable

\* C7: an empty credential list is fatal before any table file is opened. When the
\* list read from combined_output.txt is empty the script exits: the
\* classification is not started and no table file is opened.
C7_EmptyIsFatal ==
    (pc # "main" /\ passwords = <<>>) =>
        /\ pc = "exit"
        /\ opened = {}
        /\ returned_value = Nothing
        /\ results_file = <<>>

C7_Witness ==
    /\ pc = "exit"
    /\ combined_output.status = "ok"
    /\ combined_output.text # <<>>
    /\ "No passwords found in the file." \in log
    /\ \E n \in TableNames : rainbow.entries[n].kind = "file"

\* the run ended before every listed table was processed, with matches accumulated
TerminatedEarly ==
    /\ DOMAIN cracked_passwords # {}
    /\ \/ pc = "killed"
       \/ pc \in {"returned", "done"} /\ rainbow.exists /\ fi <= Len(rainbow_files)

\* within a call the domain of the accumulator only grows
AccumulatesOnly ==
    [][(pc = "crt_file" \/ pc = "crt_pwd") =>
          (DOMAIN cracked_passwords \subseteq DOMAIN cracked_passwords' /\ opened \subseteq opened')]_vars

\* an abort by an exception of open() or encode() hands back the partial dict
AbortKeepsResult ==
    (pc \in {"returned", "done"} /\ rainbow.exists /\ fi <= Len(rainbow_files)) =>
        /\ returned_value = ReturnValue(cracked_passwords)
        /\ \A i \in (fi + 1)..Len(rainbow_files) : rainbow_files[i] \notin opened

\* C8: early termination preserves the partial result. When a run is terminated
\* early, by a user interrupt or by an abort during a table's scan, no further
\* table is scanned and the caller receives exactly the matches accumulated so far.
C8_PartialResultKept ==
    TerminatedEarly =>
        /\ returned_value = ReturnValue(cracked_passwords)
        /\ \A i \in (fi + 1)..Len(rainbow_files) : rainbow_files[i] \notin opened

\* skips that happened during the run (no line of a table can fail to parse)
SkippedSources == Cardinality(ReadableTables \ opened) + Cardinality(UnreadableTables)

SkippedCredentials == Cardinality({i \in 1..Len(passwords) : ~CanEncode(passwords[i])})

\* C9: partial failures are visible. The value returned carries, next to the
\* mapping, the counts of skipped credentials, skipped table sources and skipped
\* lines, each equal to the number of such skips of the run.
C9_CountsReturned ==
    Returned =>
        /\ {"skipped_credentials", "skipped_sources", "skipped_lines"} \subseteq DOMAIN returned_value
        /\ returned_value.skipped_credentials = SkippedCredentials
        /\ returned_value.skipped_sources = SkippedSources
        /\ returned_value.skipped_lines = 0

\* convert_and_combine wrote the file and the script has read it back
ReadBack == pc \in {"analyze", "exit"} /\ combined_output.status = "ok"

\* C10: the credential list is unique and clean. The lines written by
\* convert_and_combine and read back by the script hold no duplicate, no empty
\* string and no string with leading or trailing whitespace.
C10_UniqueAndClean ==
    ReadBack =>
        /\ \A i, j \in 1..Len(passwords) : passwords[i] = passwords[j] => i = j
        /\ \A i \in 1..Len(passwords) :
              /\ passwords[i] # <<>>
              /\ passwords[i][1] \notin {" ", "\n", "\r", "\f"}
              /\ passwords[i][Len(passwords[i])] \notin {" ", "\n", "\r", "\f"}

C10_Witness ==
    /\ ReadBack
    /\ Len(passwords) >= 2
    /\ Len(combined_content) >= 2
    /\ \E i, j \in 1..Len(combined_content) :
          /\ i # j
          /\ \E k \in 1..Len(passwords) :
                /\ passwords[k] \in Range(CleanLines(combined_content[i]))
                /\ passwords[k] \in Range(CleanLines(combined_content[j]))
    /\ \E i \in 1..Len(combined_content) : combined_content[i] # Strip(combined_content[i])

====
